---- MODULE Spec2Model ----
(***************************************************************************)
(* Model of the two batch transforms of code/pyCLIF.py:                    *)
(*   stitch_encounters    (encounter stitcher, lines 452-527)              *)
(*   process_resp_support (waterfall normalizer, lines 279-450)            *)
(* Tables are sequences of records; one action per block of statements.    *)
(***************************************************************************)
EXTENDS Integers, Sequences, FiniteSets, TLC

VARIABLES
    pc,               \* position in stitch_encounters
    hospitalization,  \* input table
    adt,              \* input table
    time_interval,    \* parameter (hours)
    hosp_adt_join,    \* left merge of the two inputs
    hospital_block,   \* working table of the linkage
    passes,           \* completed iterations of the while loop
    hospital_block2,  \* per-block aggregates
    df,               \* returned table
    wpc,              \* position in process_resp_support
    resp_input,       \* the table passed to process_resp_support
    resp_support,     \* its working table (df in the source)
    resp_rerun        \* result of process_resp_support on its own output

stitchVars == <<pc, hospitalization, adt, time_interval, hosp_adt_join,
                hospital_block, passes, hospital_block2, df>>
respVars == <<wpc, resp_input, resp_support, resp_rerun>>
vars == <<stitchVars, respVars>>

-----------------------------------------------------------------------------
(* Bounds of the model *)
MaxHosp == 3        \* rows of the hospitalization table
MaxPatient == 2     \* distinct patients
MaxTick == 3        \* timestamps are 0, HourStep, ..., MaxTick * HourStep hours
HourStep == 3       \* hours between two representable timestamps

(* Missing values *)
NaT == 0 - 1            \* missing timestamp
NaN == "NaN"            \* missing string
NaBlock == 0            \* missing encounter_block (NaN after shift(-1))

Dttms == {HourStep * k : k \in 0..MaxTick}
DefaultTimeInterval == 6

-----------------------------------------------------------------------------
(* Generic table helpers (pandas semantics) *)

Range(s) == {s[i] : i \in DOMAIN s}

RECURSIVE FlattenSeq(_)
FlattenSeq(ss) ==
    IF ss = <<>> THEN <<>> ELSE Head(ss) \o FlattenSeq(Tail(ss))

\* the rows of s at the positions I, in table order
RECURSIVE RowsAt(_, _)
RowsAt(s, I) ==
    IF I = {} THEN <<>>
    ELSE LET i == CHOOSE x \in I : \A y \in I : x <= y
         IN  <<s[i]>> \o RowsAt(s, I \ {i})

\* DataFrame.drop_duplicates(subset=..., keep='first') on the key Key(row)
DropDupBy(s, Key(_)) ==
    RowsAt(s, {i \in DOMAIN s : \A j \in 1..(i - 1) : Key(s[j]) # Key(s[i])})

Identity(r) == r
DropDuplicates(s) == DropDupBy(s, Identity)

\* stable sort: equal keys keep their table order
StableSort(s, Less(_, _)) ==
    LET rank(i) == 1 + Cardinality({j \in DOMAIN s :
                        \/ Less(s[j], s[i])
                        \/ (~Less(s[i], s[j]) /\ j < i)})
    IN  [k \in DOMAIN s |-> s[CHOOSE i \in DOMAIN s : rank(i) = k]]

\* comparison of two timestamps with na_position='last'
DttmCmp(a, b) ==
    IF a = b THEN 0
    ELSE IF a = NaT THEN 1
    ELSE IF b = NaT THEN 0 - 1
    ELSE IF a < b THEN 0 - 1 ELSE 1

IntCmp(a, b) == IF a = b THEN 0 ELSE IF a < b THEN 0 - 1 ELSE 1

\* lexicographic combination of per-column comparisons
RECURSIVE LexLess(_)
LexLess(cs) ==
    IF cs = <<>> THEN FALSE
    ELSE IF Head(cs) < 0 THEN TRUE
    ELSE IF Head(cs) > 0 THEN FALSE
    ELSE LexLess(Tail(cs))

Min(S) == CHOOSE x \in S : \A y \in S : x <= y
Max(S) == CHOOSE x \in S : \A y \in S : x >= y

\* sorted(x.unique()) for integer ids
RECURSIVE SortedSeq(_)
SortedSeq(S) ==
    IF S = {} THEN <<>> ELSE <<Min(S)>> \o SortedSeq(S \ {Min(S)})

-----------------------------------------------------------------------------
(* stitch_encounters: input tables *)

HospRow(h, p, a, d) ==
    [patient_id |-> p, hospitalization_id |-> h,
     admission_dttm |-> a, discharge_dttm |-> d]

\* a stay ends no earlier than it starts; either end may be missing
Stays == {ad \in (Dttms \cup {NaT}) \X (Dttms \cup {NaT}) :
            ad[1] = NaT \/ ad[2] = NaT \/ ad[1] <= ad[2]}

\* hospitalization_id is the key of the table: row i carries id i;
\* patient ids are labels, the first row's patient is called 1
HospTables ==
    {[h \in 1..MaxHosp |-> HospRow(h, ps[h], st[h][1], st[h][2])] :
        ps \in {f \in [1..MaxHosp -> 1..MaxPatient] : f[1] = 1},
        st \in [1..MaxHosp -> Stays]}

AdtRow(h, i, o, loc, hid) ==
    [hospitalization_id |-> h, in_dttm |-> i, out_dttm |-> o,
     location_category |-> loc, hospital_id |-> hid]

\* transfer records: none, one stay with two transfers, one transfer per stay
AdtTables ==
    { <<>>,
      <<AdtRow(1, 0, HourStep, "ed", "H1"), AdtRow(1, HourStep, NaT, "icu", "H2")>>,
      [h \in 1..MaxHosp |-> AdtRow(h, 0, HourStep, "icu", "H1")] }

-----------------------------------------------------------------------------
(* stitch_encounters, lines 464-472: left merge of hospitalization and adt *)

JoinRow(hr, in, out, loc, hid) ==
    [patient_id |-> hr.patient_id, hospitalization_id |-> hr.hospitalization_id,
     admission_dttm |-> hr.admission_dttm, discharge_dttm |-> hr.discharge_dttm,
     in_dttm |-> in, out_dttm |-> out, location_category |-> loc, hospital_id |-> hid]

\* variant: the merge keeps only hospitalizations that have a transfer record
MergeHospAdtInner(hosp, adtT) ==
    FlattenSeq([i \in DOMAIN hosp |->
        LET m == SelectSeq(adtT,
                   LAMBDA a : a.hospitalization_id = hosp[i].hospitalization_id)
        IN  [k \in DOMAIN m |->
                JoinRow(hosp[i], m[k].in_dttm, m[k].out_dttm,
                        m[k].location_category, m[k].hospital_id)]])

MergeHospAdt(hosp, adtT) ==
    FlattenSeq([i \in DOMAIN hosp |->
        LET m == SelectSeq(adtT,
                   LAMBDA a : a.hospitalization_id = hosp[i].hospitalization_id)
        IN  IF m = <<>>
            THEN <<JoinRow(hosp[i], NaT, NaT, NaN, NaN)>>
            ELSE [k \in DOMAIN m |->
                    JoinRow(hosp[i], m[k].in_dttm, m[k].out_dttm,
                            m[k].location_category, m[k].hospital_id)]])

(* lines 474-478: one row per hospitalization, sorted by patient and admission *)

\* variant: the sort key is admission_dttm alone
LessAdmissionOnly(r1, r2) ==
    LexLess(<<DttmCmp(r1.admission_dttm, r2.admission_dttm)>>)

LessPatientAdmission(r1, r2) ==
    LexLess(<<IntCmp(r1.patient_id, r2.patient_id),
              DttmCmp(r1.admission_dttm, r2.admission_dttm)>>)

BlockKeys(join) ==
    StableSort(
        DropDuplicates([i \in DOMAIN join |->
            HospRow(join[i].hospitalization_id, join[i].patient_id,
                    join[i].admission_dttm, join[i].discharge_dttm)]),
        LessPatientAdmission)

(* lines 480-487: gap to the patient's next admission and the linked flag *)

\* groupby("patient_id")["admission_dttm"].shift(-1)
NextAdmission(hb, i) ==
    LET later == {j \in DOMAIN hb : j > i /\ hb[j].patient_id = hb[i].patient_id}
    IN  IF later = {} THEN NaT ELSE hb[Min(later)].admission_dttm

GapIsNa(hb, i) == NextAdmission(hb, i) = NaT \/ hb[i].discharge_dttm = NaT

GapHrs(hb, i) ==
    IF GapIsNa(hb, i) THEN 0 ELSE NextAdmission(hb, i) - hb[i].discharge_dttm

\* variant: a gap equal to the threshold links
LinkedInclusive(hb, i, ti) == ~GapIsNa(hb, i) /\ GapHrs(hb, i) <= ti

\* a comparison with a missing gap is False
Linked(hb, i, ti) == ~GapIsNa(hb, i) /\ GapHrs(hb, i) < ti

WithLinks(hb, ti) ==
    [i \in DOMAIN hb |->
        [patient_id |-> hb[i].patient_id,
         hospitalization_id |-> hb[i].hospitalization_id,
         admission_dttm |-> hb[i].admission_dttm,
         discharge_dttm |-> hb[i].discharge_dttm,
         next_admission_dttm |-> NextAdmission(hb, i),
         gap_isna |-> GapIsNa(hb, i),
         discharge_to_next_admission_hrs |-> GapHrs(hb, i),
         linked6hrs |-> Linked(hb, i, ti)]]

(* lines 489-493: sort again, encounter_block = row index + 1 *)

\* variant: block ids start from the rank within the patient
InitialBlockPerPatient(hb, i) ==
    1 + Cardinality({j \in 1..(i - 1) : hb[j].patient_id = hb[i].patient_id})

InitialBlock(hb, i) == i

WithInitialBlocks(hb) ==
    LET sorted == StableSort(hb, LessPatientAdmission)
    IN  [i \in DOMAIN sorted |->
            [patient_id |-> sorted[i].patient_id,
             hospitalization_id |-> sorted[i].hospitalization_id,
             admission_dttm |-> sorted[i].admission_dttm,
             discharge_dttm |-> sorted[i].discharge_dttm,
             next_admission_dttm |-> sorted[i].next_admission_dttm,
             gap_isna |-> sorted[i].gap_isna,
             discharge_to_next_admission_hrs |-> sorted[i].discharge_to_next_admission_hrs,
             linked6hrs |-> sorted[i].linked6hrs,
             encounter_block |-> InitialBlock(sorted, i)]]

(* lines 496-501: one iteration of the while loop and its exit test *)

\* Series.shift(-1): the value of the next row, missing on the last row
ShiftedBlock(hb, i) == IF i < Len(hb) THEN hb[i + 1].encounter_block ELSE NaBlock

\* linked6hrs & (patient_id == patient_id.shift(-1))
LinkMask(hb, i) ==
    hb[i].linked6hrs /\ i < Len(hb) /\ hb[i].patient_id = hb[i + 1].patient_id

PropagatePass(hb) ==
    [i \in DOMAIN hb |->
        IF LinkMask(hb, i)
        THEN [hb[i] EXCEPT !.encounter_block = ShiftedBlock(hb, i)]
        ELSE hb[i]]

\* Series.bfill(): a missing value takes the next present value below it
BfillBlock(hb, i) ==
    LET below == {j \in DOMAIN hb : j >= i /\ hb[j].encounter_block # NaBlock}
    IN  IF below = {} THEN NaBlock ELSE hb[Min(below)].encounter_block

\* encounter_block.equals(encounter_block.bfill())
LoopExit(hb) == \A i \in DOMAIN hb : hb[i].encounter_block = BfillBlock(hb, i)

(* lines 503-506: bfill, merge with the transfer columns, sort, drop duplicates *)

LessPatientAdmissionInOut(r1, r2) ==
    LexLess(<<IntCmp(r1.patient_id, r2.patient_id),
              DttmCmp(r1.admission_dttm, r2.admission_dttm),
              DttmCmp(r1.in_dttm, r2.in_dttm),
              DttmCmp(r1.out_dttm, r2.out_dttm)>>)

MergeHospitalCat(hb, join) ==
    FlattenSeq([i \in DOMAIN hb |->
        LET m == SelectSeq(join,
                   LAMBDA j : j.hospitalization_id = hb[i].hospitalization_id)
        IN  IF m = <<>>
            THEN <<[patient_id |-> hb[i].patient_id,
                    hospitalization_id |-> hb[i].hospitalization_id,
                    admission_dttm |-> hb[i].admission_dttm,
                    discharge_dttm |-> hb[i].discharge_dttm,
                    linked6hrs |-> hb[i].linked6hrs,
                    encounter_block |-> BfillBlock(hb, i),
                    in_dttm |-> NaT, out_dttm |-> NaT, hospital_id |-> NaN]>>
            ELSE [k \in DOMAIN m |->
                   [patient_id |-> hb[i].patient_id,
                    hospitalization_id |-> hb[i].hospitalization_id,
                    admission_dttm |-> hb[i].admission_dttm,
                    discharge_dttm |-> hb[i].discharge_dttm,
                    linked6hrs |-> hb[i].linked6hrs,
                    encounter_block |-> BfillBlock(hb, i),
                    in_dttm |-> m[k].in_dttm, out_dttm |-> m[k].out_dttm,
                    hospital_id |-> m[k].hospital_id]]])

BlockTransfers(hb, join) ==
    DropDuplicates(StableSort(MergeHospitalCat(hb, join), LessPatientAdmissionInOut))

(* lines 508-513: groupby(patient_id, encounter_block).agg(...) *)

\* aggfunc 'min' / 'max' skip missing timestamps
MinDttm(S) == IF S \ {NaT} = {} THEN NaT ELSE Min(S \ {NaT})
MaxDttm(S) == IF S \ {NaT} = {} THEN NaT ELSE Max(S \ {NaT})

\* aggfunc 'last': the last non-missing value of the group
LastHospitalId(g) ==
    LET present == {i \in DOMAIN g : g[i].hospital_id # NaN}
    IN  IF present = {} THEN NaN ELSE g[Max(present)].hospital_id

\* the rows of one (patient_id, encounter_block) group, in table order
GroupRows(hbm, p, b) ==
    SelectSeq(hbm, LAMBDA r : r.patient_id = p /\ r.encounter_block = b)

\* variant: the member ids in order of appearance, not sorted
ListHospitalizationIdUnsorted(g) ==
    DropDuplicates([i \in DOMAIN g |-> g[i].hospitalization_id])

ListHospitalizationId(g) == SortedSeq({g[i].hospitalization_id : i \in DOMAIN g})

LessPatientBlock(r1, r2) ==
    LexLess(<<IntCmp(r1.patient_id, r2.patient_id),
              IntCmp(r1.encounter_block, r2.encounter_block)>>)

AggregateBlocks(hbm) ==
    LET keys == DropDuplicates([i \in DOMAIN hbm |->
                    [patient_id |-> hbm[i].patient_id,
                     encounter_block |-> hbm[i].encounter_block]])
        skeys == StableSort(keys, LessPatientBlock)
    IN  [k \in DOMAIN skeys |->
            LET g == GroupRows(hbm, skeys[k].patient_id, skeys[k].encounter_block)
            IN  [patient_id |-> skeys[k].patient_id,
                 encounter_block |-> skeys[k].encounter_block,
                 admission_dttm |-> MinDttm({g[i].admission_dttm : i \in DOMAIN g}),
                 discharge_dttm |-> MaxDttm({g[i].discharge_dttm : i \in DOMAIN g}),
                 hospital_id |-> LastHospitalId(g),
                 list_hospitalization_id |-> ListHospitalizationId(g)]]

(* lines 515-527: membership, transfer records, block metadata, final dedup *)

Membership(hbm) ==
    DropDuplicates([i \in DOMAIN hbm |->
        [patient_id |-> hbm[i].patient_id,
         hospitalization_id |-> hbm[i].hospitalization_id,
         encounter_block |-> hbm[i].encounter_block]])

MergeTransfers(mem, join) ==
    FlattenSeq([i \in DOMAIN mem |->
        LET m == SelectSeq(join,
                   LAMBDA j : j.hospitalization_id = mem[i].hospitalization_id)
        IN  IF m = <<>>
            THEN <<[patient_id |-> mem[i].patient_id,
                    hospitalization_id |-> mem[i].hospitalization_id,
                    encounter_block |-> mem[i].encounter_block,
                    location_category |-> NaN, in_dttm |-> NaT, out_dttm |-> NaT]>>
            ELSE [k \in DOMAIN m |->
                   [patient_id |-> mem[i].patient_id,
                    hospitalization_id |-> mem[i].hospitalization_id,
                    encounter_block |-> mem[i].encounter_block,
                    location_category |-> m[k].location_category,
                    in_dttm |-> m[k].in_dttm, out_dttm |-> m[k].out_dttm]]])

\* the merge key is encounter_block alone
BlockMatches(row, blocks) ==
    SelectSeq(blocks, LAMBDA b : b.encounter_block = row.encounter_block)

MergeBlockMetadata(rows, blocks) ==
    FlattenSeq([i \in DOMAIN rows |->
        LET m == BlockMatches(rows[i], blocks)
        IN  IF m = <<>>
            THEN <<[patient_id |-> rows[i].patient_id,
                    hospitalization_id |-> rows[i].hospitalization_id,
                    encounter_block |-> rows[i].encounter_block,
                    location_category |-> rows[i].location_category,
                    in_dttm |-> rows[i].in_dttm, out_dttm |-> rows[i].out_dttm,
                    admission_dttm |-> NaT, discharge_dttm |-> NaT,
                    hospital_id |-> NaN, list_hospitalization_id |-> <<>>]>>
            ELSE [k \in DOMAIN m |->
                   [patient_id |-> rows[i].patient_id,
                    hospitalization_id |-> rows[i].hospitalization_id,
                    encounter_block |-> rows[i].encounter_block,
                    location_category |-> rows[i].location_category,
                    in_dttm |-> rows[i].in_dttm, out_dttm |-> rows[i].out_dttm,
                    admission_dttm |-> m[k].admission_dttm,
                    discharge_dttm |-> m[k].discharge_dttm,
                    hospital_id |-> m[k].hospital_id,
                    list_hospitalization_id |-> m[k].list_hospitalization_id]]])

OutputKey(r) ==
    <<r.patient_id, r.encounter_block, r.in_dttm, r.out_dttm, r.location_category>>

StitchedOutput(hbm, join, blocks) ==
    DropDupBy(MergeBlockMetadata(MergeTransfers(Membership(hbm), join), blocks),
              OutputKey)

(* lines 452-527: the function as a whole *)

\* the while loop of lines 496-501, run to its break
RECURSIVE PropagateLoop(_)
PropagateLoop(hb) ==
    LET pass == PropagatePass(hb)
    IN  IF LoopExit(pass) THEN pass ELSE PropagateLoop(pass)

stitch_encounters(hosp, adtT, ti) ==
    LET join == MergeHospAdt(hosp, adtT)
        hb == PropagateLoop(WithInitialBlocks(WithLinks(BlockKeys(join), ti)))
        hbm == BlockTransfers(hb, join)
    IN  StitchedOutput(hbm, join, AggregateBlocks(hbm))

-----------------------------------------------------------------------------
(* stitch_encounters as a state machine *)

\* process_resp_support is not running
RespIdle ==
    /\ wpc = "idle"
    /\ resp_input = <<>>
    /\ resp_support = <<>>
    /\ resp_rerun = <<>>

Init ==
    /\ RespIdle
    /\ pc = "start"
    /\ hospitalization \in HospTables
    /\ adt \in AdtTables
    /\ time_interval = DefaultTimeInterval
    /\ hosp_adt_join = <<>>
    /\ hospital_block = <<>>
    /\ passes = 0
    /\ hospital_block2 = <<>>
    /\ df = <<>>

\* lines 464-472
Merge ==
    /\ pc = "start"
    /\ hosp_adt_join' = MergeHospAdt(hospitalization, adt)
    /\ pc' = "joined"
    /\ UNCHANGED <<hospitalization, adt, time_interval, hospital_block, passes,
                   hospital_block2, df, respVars>>

\* lines 474-493
BuildBlocks ==
    /\ pc = "joined"
    /\ hospital_block' =
          WithInitialBlocks(WithLinks(BlockKeys(hosp_adt_join), time_interval))
    /\ pc' = "loop"
    /\ UNCHANGED <<hospitalization, adt, time_interval, hosp_adt_join, passes,
                   hospital_block2, df, respVars>>

\* lines 496-501: the loop body, then the break test
Propagate ==
    /\ pc = "loop"
    /\ hospital_block' = PropagatePass(hospital_block)
    /\ passes' = passes + 1
    /\ pc' = IF LoopExit(PropagatePass(hospital_block)) THEN "linked" ELSE "loop"
    /\ UNCHANGED <<hospitalization, adt, time_interval, hosp_adt_join,
                   hospital_block2, df, respVars>>

\* lines 503-513
Aggregate ==
    /\ pc = "linked"
    /\ hospital_block' = BlockTransfers(hospital_block, hosp_adt_join)
    /\ hospital_block2' = AggregateBlocks(BlockTransfers(hospital_block, hosp_adt_join))
    /\ pc' = "aggregated"
    /\ UNCHANGED <<hospitalization, adt, time_interval, hosp_adt_join, passes, df,
                   respVars>>

\* lines 515-527
Output ==
    /\ pc = "aggregated"
    /\ df' = StitchedOutput(hospital_block, hosp_adt_join, hospital_block2)
    /\ pc' = "done"
    /\ UNCHANGED <<hospitalization, adt, time_interval, hosp_adt_join,
                   hospital_block, passes, hospital_block2, respVars>>

Next == Merge \/ BuildBlocks \/ Propagate \/ Aggregate \/ Output

Spec == Init /\ [][Next]_vars

-----------------------------------------------------------------------------
(* Properties of stitch_encounters *)

SamePatientNext(hb, i) ==
    i < Len(hb) /\ hb[i].patient_id = hb[i + 1].patient_id

\* the gap between row i's discharge and the next admission of the same
\* patient is known and below the threshold
GapBelowThreshold(hb, i) ==
    /\ SamePatientNext(hb, i)
    /\ hb[i].discharge_dttm # NaT
    /\ hb[i + 1].admission_dttm # NaT
    /\ hb[i + 1].admission_dttm - hb[i].discharge_dttm < time_interval

PatientIds == {hospitalization[i].patient_id : i \in DOMAIN hospitalization}

PatientHosps(p) ==
    {hospitalization[i].hospitalization_id :
        i \in {j \in DOMAIN hospitalization : hospitalization[j].patient_id = p}}

BlocksOfPatient(p) ==
    {k \in DOMAIN hospital_block2 : hospital_block2[k].patient_id = p}

MembersOfBlock(k) == Range(hospital_block2[k].list_hospitalization_id)

\* C1: after the propagation loop, any two admission-consecutive
\* hospitalizations of a patient whose discharge-to-next-admission gap is below
\* time_interval have the same encounter_block (chains of any length end in
\* one block).
C1_LinkedPairsShareBlock ==
    pc = "linked" =>
        \A i \in DOMAIN hospital_block :
            GapBelowThreshold(hospital_block, i) =>
                hospital_block[i].encounter_block =
                    hospital_block[i + 1].encounter_block

\* C2: for every patient the list_hospitalization_id values of the patient's
\* blocks are pairwise disjoint and their union is the patient's full set of
\* hospitalizations.
C2_PartitionInvariant ==
    pc \in {"aggregated", "done"} =>
        \A p \in PatientIds :
            /\ \A k1, k2 \in BlocksOfPatient(p) :
                  k1 # k2 => MembersOfBlock(k1) \cap MembersOfBlock(k2) = {}
            /\ UNION {MembersOfBlock(k) : k \in BlocksOfPatient(p)} = PatientHosps(p)

\* a patient with two blocks, one of them holding two hospitalizations
C2_Witness ==
    /\ pc = "done"
    /\ \E p \in PatientIds : \E k1, k2 \in BlocksOfPatient(p) :
          /\ k1 # k2
          /\ Cardinality(MembersOfBlock(k1)) = 2

\* C3: consecutive hospitalizations of a patient whose gap is not below
\* time_interval (equal to it, above it, or unknown) never share a block; a
\* pair whose gap is below it shares a block when the later one is not linked
\* further (A | B-C gives {A} and {B,C}); and a patient with exactly two
\* hospitalizations gets one block iff the gap is strictly below time_interval.
C3_LinkedIffGapBelow ==
    pc = "linked" =>
        /\ \A i \in DOMAIN hospital_block :
              (GapBelowThreshold(hospital_block, i)
                  /\ ~GapBelowThreshold(hospital_block, i + 1)) =>
                 hospital_block[i].encounter_block =
                     hospital_block[i + 1].encounter_block
        /\ \A i \in DOMAIN hospital_block :
              (SamePatientNext(hospital_block, i)
                  /\ ~GapBelowThreshold(hospital_block, i)) =>
                 hospital_block[i].encounter_block #
                     hospital_block[i + 1].encounter_block
        /\ \A i \in DOMAIN hospital_block :
              (SamePatientNext(hospital_block, i)
                  /\ Cardinality(PatientHosps(hospital_block[i].patient_id)) = 2) =>
                 ((hospital_block[i].encounter_block =
                      hospital_block[i + 1].encounter_block)
                  <=> GapBelowThreshold(hospital_block, i))

\* a two-hospitalization patient whose gap equals the threshold: two blocks
C3_Witness ==
    /\ pc = "linked"
    /\ \E i \in DOMAIN hospital_block :
          /\ SamePatientNext(hospital_block, i)
          /\ Cardinality(PatientHosps(hospital_block[i].patient_id)) = 2
          /\ hospital_block[i].discharge_dttm # NaT
          /\ hospital_block[i + 1].admission_dttm # NaT
          /\ hospital_block[i + 1].admission_dttm
                - hospital_block[i].discharge_dttm = time_interval
          /\ hospital_block[i].encounter_block #
                hospital_block[i + 1].encounter_block

\* C4: the propagation loop ends at its fixpoint (a further pass changes no
\* block id) after at most N passes for N hospitalizations, and after the
\* first pass when no pair is linked.
C4_LoopEndsAtFixpoint ==
    pc = "linked" =>
        /\ passes <= Len(hospital_block)
        /\ PropagatePass(hospital_block) = hospital_block
        /\ (\A i \in DOMAIN hospital_block : ~LinkMask(hospital_block, i))
              => passes = 1

\* C5: two hospitalizations with the same encounter_block have the same
\* patient_id, from initialisation on, and the block metadata joined on
\* encounter_block alone belongs to the row's own patient.
C5_BlocksWithinPatient ==
    /\ pc \in {"loop", "linked", "aggregated", "done"} =>
          \A i, j \in DOMAIN hospital_block :
              hospital_block[i].encounter_block = hospital_block[j].encounter_block
                  => hospital_block[i].patient_id = hospital_block[j].patient_id
    /\ pc = "done" =>
          \A i \in DOMAIN df :
              /\ Range(df[i].list_hospitalization_id) \subseteq
                    PatientHosps(df[i].patient_id)
              /\ df[i].hospitalization_id \in Range(df[i].list_hospitalization_id)
              /\ Len(BlockMatches(df[i], hospital_block2)) = 1

\* two patients in the output, one of them with a merged block
C5_Witness ==
    /\ pc = "done"
    /\ \E i, j \in DOMAIN df :
          /\ df[i].patient_id # df[j].patient_id
          /\ Len(df[i].list_hospitalization_id) = 2

\* C6: a hospitalization with a missing admission_dttm or discharge_dttm ends
\* as its own singleton encounter block.
C6_MissingTimeIsSingleton ==
    pc = "done" =>
        \A i \in DOMAIN hospitalization :
            (hospitalization[i].admission_dttm = NaT
                \/ hospitalization[i].discharge_dttm = NaT) =>
               \A k \in DOMAIN hospital_block2 :
                   hospitalization[i].hospitalization_id \in MembersOfBlock(k)
                       => MembersOfBlock(k) = {hospitalization[i].hospitalization_id}

\* the hospitalizations that carry the block id of hospital_block2[k]
HospsInBlock(k) ==
    {hospital_block[i].hospitalization_id :
        i \in {j \in DOMAIN hospital_block :
                 /\ hospital_block[j].patient_id = hospital_block2[k].patient_id
                 /\ hospital_block[j].encounter_block
                       = hospital_block2[k].encounter_block}}

\* the known values of a timestamp column over the input rows of the ids H
KnownDttms(H, col) ==
    {hospitalization[i][col] :
        i \in {j \in DOMAIN hospitalization :
                 hospitalization[j].hospitalization_id \in H}} \ {NaT}

IsStrictlyIncreasing(s) == \A i, j \in DOMAIN s : i < j => s[i] < s[j]

\* C11: for every encounter block, admission_dttm is the earliest admission of
\* its member hospitalizations in the input table, discharge_dttm the latest
\* discharge of its members (missing when no member has one), and
\* list_hospitalization_id is the strictly increasing list of exactly the ids
\* that carry the block's id.
C11_BlockAggregates ==
    pc \in {"aggregated", "done"} =>
        \A k \in DOMAIN hospital_block2 :
            LET blk == hospital_block2[k]
                adm == KnownDttms(HospsInBlock(k), "admission_dttm")
                dis == KnownDttms(HospsInBlock(k), "discharge_dttm")
            IN  /\ IF adm = {} THEN blk.admission_dttm = NaT
                   ELSE /\ blk.admission_dttm \in adm
                        /\ \A a \in adm : blk.admission_dttm <= a
                /\ IF dis = {} THEN blk.discharge_dttm = NaT
                   ELSE /\ blk.discharge_dttm \in dis
                        /\ \A d \in dis : blk.discharge_dttm >= d
                /\ Range(blk.list_hospitalization_id) = HospsInBlock(k)
                /\ IsStrictlyIncreasing(blk.list_hospitalization_id)

\* a block of two hospitalizations in which the one with the greater id was
\* admitted first and discharged first
C11_Witness ==
    /\ pc = "done"
    /\ \E k \in DOMAIN hospital_block2 :
          \E i, j \in DOMAIN hospitalization :
             /\ HospsInBlock(k) = {hospitalization[i].hospitalization_id,
                                   hospitalization[j].hospitalization_id}
             /\ hospitalization[i].hospitalization_id
                   > hospitalization[j].hospitalization_id
             /\ hospitalization[i].admission_dttm # NaT
             /\ hospitalization[i].admission_dttm < hospitalization[j].admission_dttm
             /\ hospital_block2[k].admission_dttm = hospitalization[i].admission_dttm
             /\ hospital_block2[k].discharge_dttm = hospitalization[j].discharge_dttm

\* the transfer rows of the block of hospital_block2[k], in the order of the
\* table the aggregation reads (patient, admission, in_dttm, out_dttm)
RowsOfBlock(k) ==
    GroupRows(hospital_block, hospital_block2[k].patient_id,
              hospital_block2[k].encounter_block)

\* C12: for every encounter block, hospital_id is the hospital_id of the last
\* transfer row of its latest-admitted member, missing when that member has no
\* transfer record or a missing hospital_id.
C12_HospitalOfLastMember ==
    pc \in {"aggregated", "done"} =>
        \A k \in DOMAIN hospital_block2 :
            hospital_block2[k].hospital_id
                = RowsOfBlock(k)[Len(RowsOfBlock(k))].hospital_id

\* the rows of patient p in a stitched table, without the block's id number
BlockView(t, p) ==
    {[hospitalization_id |-> r.hospitalization_id,
      location_category |-> r.location_category,
      in_dttm |-> r.in_dttm, out_dttm |-> r.out_dttm,
      admission_dttm |-> r.admission_dttm,
      discharge_dttm |-> r.discharge_dttm,
      hospital_id |-> r.hospital_id,
      list_hospitalization_id |-> r.list_hospitalization_id] :
        r \in {x \in Range(t) : x.patient_id = p}}

HospsOfPatient(p) == SelectSeq(hospitalization, LAMBDA r : r.patient_id = p)

AdtOfPatient(p) ==
    SelectSeq(adt, LAMBDA a : a.hospitalization_id \in PatientHosps(p))

\* C17: the blocks of a patient (members, admission_dttm, discharge_dttm,
\* hospital_id, list_hospitalization_id of every output row) are the ones
\* stitch_encounters produces from that patient's hospitalizations and
\* transfer records alone.
C17_IndependentPerPatient ==
    pc = "done" =>
        \A p \in PatientIds :
            BlockView(df, p)
                = BlockView(stitch_encounters(HospsOfPatient(p), AdtOfPatient(p),
                                              time_interval), p)

\* two patients in the input, one of them with a block of two hospitalizations
\* admitted around an admission of the other patient
C17_Witness ==
    /\ pc = "done"
    /\ \E i, j, o \in DOMAIN hospitalization :
          /\ hospitalization[i].patient_id = hospitalization[j].patient_id
          /\ hospitalization[o].patient_id # hospitalization[i].patient_id
          /\ hospitalization[i].admission_dttm # NaT
          /\ hospitalization[i].admission_dttm < hospitalization[o].admission_dttm
          /\ hospitalization[o].admission_dttm < hospitalization[j].admission_dttm
          /\ \E r \in Range(df) :
                Range(r.list_hospitalization_id)
                    = {hospitalization[i].hospitalization_id,
                       hospitalization[j].hospitalization_id}

\* C27: every hospitalization_id of the input hospitalization table is in at
\* least one row of the returned table, and all its rows have one
\* encounter_block value.
C27_NoHospitalizationLost ==
    pc = "done" =>
        \A i \in DOMAIN hospitalization :
            LET rows == {r \in Range(df) :
                           r.hospitalization_id = hospitalization[i].hospitalization_id}
            IN  /\ rows # {}
                /\ \A r1, r2 \in rows : r1.encounter_block = r2.encounter_block

-----------------------------------------------------------------------------
(* process_resp_support: tables *)

MaxRows == 3          \* rows of the respiratory support table
MaxRespHosp == 2      \* hospitalizations in the respiratory support table

NaNum == 0 - 1        \* missing number (settings are non-negative)
BadDttm == 0 - 2      \* a recorded_dttm that pd.to_datetime cannot parse
RoomAirFio2 == 21     \* 0.21, fio2_set is modelled in percent
VentThreshold == 1    \* resp_rate_set.gt(1), peep_set.gt(1)

RespRow(ix, h, t, dc, dn, mc, mn, fio2, lpm, peep, rrs, rro, tr) ==
    [index |-> ix, hospitalization_id |-> h, recorded_dttm |-> t,
     device_category |-> dc, device_name |-> dn,
     mode_category |-> mc, mode_name |-> mn,
     fio2_set |-> fio2, lpm_set |-> lpm, peep_set |-> peep,
     resp_rate_set |-> rrs, resp_rate_obs |-> rro, tracheostomy |-> tr,
     device_cat_id |-> 0, device_id |-> 0, mode_cat_id |-> 0, mode_name_id |-> 0]

\* Series.str.lower() on the vocabulary of the model
Lower(v) ==
    CASE v = "IMV" -> "imv"
      [] v = "SIMV" -> "simv"
      [] v = "T-Piece" -> "t-piece"
      [] OTHER -> v

\* str.contains('assist control-volume control|simv|pressure control')
ImvModePatterns == {"assist control-volume control", "simv", "pressure control"}
MatchesImvMode(v) == v \in ImvModePatterns \cup {"pressure control-ac", "simv-pc"}

\* str.contains('t-piece')
ContainsTPiece(v) == v \in {"t-piece", "trach t-piece"}

-----------------------------------------------------------------------------
(* pandas column helpers; a table is a sequence of rows, row[col] a cell *)

\* the values of the grouping columns of row i
GroupKey(t, keys, i) == [k \in DOMAIN keys |-> t[i][keys[k]]]

SameGroup(t, keys, i, j) == GroupKey(t, keys, i) = GroupKey(t, keys, j)

\* groupby(keys)[col].ffill(): the last present value at or above the row,
\* within the row's group
GroupFfill(t, col, keys, na, i) ==
    LET above == {j \in 1..i : SameGroup(t, keys, i, j) /\ t[j][col] # na}
    IN  IF above = {} THEN na ELSE t[Max(above)][col]

\* groupby(keys)[col].bfill() within the row's group
GroupBfill(t, col, keys, na, i) ==
    LET below == {j \in i..Len(t) : SameGroup(t, keys, i, j) /\ t[j][col] # na}
    IN  IF below = {} THEN na ELSE t[Min(below)][col]

\* Series.bfill() on the whole column: the next present value at or below
\* the row, whatever its group
SeriesBfill(c, na, i) ==
    LET below == {j \in i..Len(c) : c[j] # na}
    IN  IF below = {} THEN na ELSE c[Min(below)]

\* groupby(keys)[col].ffill().bfill(): the fill forward is per group, the fill
\* backward runs over the resulting column of the whole table
FfillThenBfill(t, col, keys, na) ==
    LET filled == [i \in DOMAIN t |-> GroupFfill(t, col, keys, na, i)]
    IN  [i \in DOMAIN t |-> SeriesBfill(filled, na, i)]

\* transform(lambda x: x.ffill().bfill()): both fills run inside the group
GroupFfillBfill(t, col, keys, na) ==
    LET filled == [i \in DOMAIN t |->
                     [t[i] EXCEPT ![col] = GroupFfill(t, col, keys, na, i)]]
    IN  [i \in DOMAIN t |-> GroupBfill(filled, col, keys, na, i)]

SetColumn(t, col, c) == [i \in DOMAIN t |-> [t[i] EXCEPT ![col] = c[i]]]

\* fillna('missing').astype('category').cat.codes: equal codes iff equal
\* values, a missing value counting as the value 'missing'
CatCode(v) == IF v = NaN THEN "missing" ELSE v

\* variant: code != code.shift(), the row above whatever its group
ChangedUngrouped(t, col, keys, i) ==
    i = 1 \/ CatCode(t[i][col]) # CatCode(t[i - 1][col])

\* code != groupby(keys)[code].shift(): the first row of a group always differs
Changed(t, col, keys, i) ==
    LET above == {j \in 1..(i - 1) : SameGroup(t, keys, i, j)}
    IN  above = {} \/ CatCode(t[i][col]) # CatCode(t[Max(above)][col])

\* groupby(keys)[change].cumsum()
SegmentIds(t, col, keys) ==
    [i \in DOMAIN t |->
        Cardinality({j \in 1..i : SameGroup(t, keys, i, j) /\ Changed(t, col, keys, j)})]

-----------------------------------------------------------------------------
(* process_resp_support, lines 289-313: lower case, sort *)

\* pd.to_datetime(df['recorded_dttm']) raises when a value cannot be parsed
Unparseable(t) == \E i \in DOMAIN t : t[i].recorded_dttm = BadDttm

\* variant: among equal keys the row that came last in the input sorts first
LessHospRecordedLastFirst(r1, r2) ==
    LexLess(<<IntCmp(r1.hospitalization_id, r2.hospitalization_id),
              DttmCmp(r1.recorded_dttm, r2.recorded_dttm),
              IntCmp(r2.index, r1.index)>>)

LessHospRecorded(r1, r2) ==
    LexLess(<<IntCmp(r1.hospitalization_id, r2.hospitalization_id),
              DttmCmp(r1.recorded_dttm, r2.recorded_dttm)>>)

Prepare(t) ==
    StableSort(
        [i \in DOMAIN t |->
            [t[i] EXCEPT !.device_category = Lower(@), !.mode_category = Lower(@),
                         !.device_name = Lower(@), !.mode_name = Lower(@)]],
        LessHospRecorded)

(* lines 315-323: repair from the mode category *)

PatternMask(t, i) ==
    /\ t[i].device_category = NaN
    /\ t[i].device_name = NaN
    /\ MatchesImvMode(t[i].mode_category)

\* variant: the repair sets device_category only
SetImvCategoryOnly(r) == [r EXCEPT !.device_category = "imv"]

SetImv(r) ==
    [r EXCEPT !.device_category = "imv", !.device_name = "mechanical ventilator"]

PatternRepair(t) ==
    [i \in DOMAIN t |-> IF PatternMask(t, i) THEN SetImv(t[i]) ELSE t[i]]

(* lines 325-349: repair from the neighbouring rows *)

\* device_category.shift() and .shift(-1): the rows above and below in the
\* table, whatever their hospitalization
ShiftedCategory(t, i) == IF i > 1 THEN t[i - 1].device_category ELSE NaN
ShiftedNegCategory(t, i) == IF i < Len(t) THEN t[i + 1].device_category ELSE NaN

\* Series.gt(1): False on a missing value
Gt(v, x) == v # NaNum /\ v > x

NeighborCondition(t, i) ==
    /\ t[i].device_category = NaN
    /\ (ShiftedCategory(t, i) = "imv" \/ ShiftedNegCategory(t, i) = "imv")
    /\ Gt(t[i].resp_rate_set, VentThreshold)
    /\ Gt(t[i].peep_set, VentThreshold)

\* variant: the repair runs a second time on its own result
NeighborRepairTwice(t) ==
    LET once == [i \in DOMAIN t |->
                    IF NeighborCondition(t, i) THEN SetImv(t[i]) ELSE t[i]]
    IN  [i \in DOMAIN once |->
            IF NeighborCondition(once, i) THEN SetImv(once[i]) ELSE once[i]]

NeighborRepair(t) ==
    [i \in DOMAIN t |-> IF NeighborCondition(t, i) THEN SetImv(t[i]) ELSE t[i]]

(* lines 351-359: duplicates and rows without any key variable *)

\* groupby(hospitalization_id, recorded_dttm).transform('size')
SizeOfTimestamp(t, i) ==
    Cardinality({j \in DOMAIN t :
        /\ t[j].hospitalization_id = t[i].hospitalization_id
        /\ t[j].recorded_dttm = t[i].recorded_dttm})

AllKeyVariablesMissing(r) ==
    /\ r.device_category = NaN
    /\ r.device_name = NaN
    /\ r.mode_category = NaN
    /\ r.mode_name = NaN
    /\ r.fio2_set = NaNum

TimestampKey(r) == <<r.hospitalization_id, r.recorded_dttm>>

\* variant: without the drop_duplicates of line 358
RemoveDuplicatesKeepAll(t) ==
    RowsAt(t, {i \in DOMAIN t :
        /\ ~(SizeOfTimestamp(t, i) > 1 /\ t[i].device_category = "nippv")
        /\ ~(SizeOfTimestamp(t, i) > 1 /\ t[i].device_category = NaN)
        /\ ~AllKeyVariablesMissing(t[i])})

\* variant: 'nippv' and missing categories are dropped at every timestamp
RemoveDuplicatesAnySize(t) ==
    DropDupBy(
        RowsAt(t, {i \in DOMAIN t :
            /\ t[i].device_category # "nippv"
            /\ t[i].device_category # NaN
            /\ ~AllKeyVariablesMissing(t[i])}),
        TimestampKey)

RemoveDuplicates(t) ==
    DropDupBy(
        RowsAt(t, {i \in DOMAIN t :
            /\ ~(SizeOfTimestamp(t, i) > 1 /\ t[i].device_category = "nippv")
            /\ ~(SizeOfTimestamp(t, i) > 1 /\ t[i].device_category = NaN)
            /\ ~AllKeyVariablesMissing(t[i])}),
        TimestampKey)

(* lines 361-383: device_category and device_name, device_cat_id and device_id *)

\* variant: device_category is filled forward and backward
SegmentDeviceBackfill(t) ==
    LET t1 == SetColumn(t, "device_category",
                FfillThenBfill(t, "device_category", <<"hospitalization_id">>, NaN))
        t2 == SetColumn(t1, "device_cat_id",
                SegmentIds(t1, "device_category", <<"hospitalization_id">>))
        t3 == SetColumn(t2, "device_name",
                FfillThenBfill(t2, "device_name",
                               <<"hospitalization_id", "device_cat_id">>, NaN))
    IN  SetColumn(t3, "device_id",
            SegmentIds(t3, "device_name", <<"hospitalization_id">>))

SegmentDevice(t) ==
    LET t1 == SetColumn(t, "device_category",
                [i \in DOMAIN t |->
                    GroupFfill(t, "device_category", <<"hospitalization_id">>, NaN, i)])
        t2 == SetColumn(t1, "device_cat_id",
                SegmentIds(t1, "device_category", <<"hospitalization_id">>))
        t3 == SetColumn(t2, "device_name",
                FfillThenBfill(t2, "device_name",
                               <<"hospitalization_id", "device_cat_id">>, NaN))
    IN  SetColumn(t3, "device_id",
            SegmentIds(t3, "device_name", <<"hospitalization_id">>))

(* lines 385-407: mode_category and mode_name, mode_cat_id and mode_name_id *)

SegmentMode(t) ==
    LET t1 == SetColumn(t, "mode_category",
                FfillThenBfill(t, "mode_category",
                               <<"hospitalization_id", "device_id">>, NaN))
        t2 == SetColumn(t1, "mode_cat_id",
                SegmentIds(t1, "mode_category", <<"hospitalization_id", "device_id">>))
        t3 == SetColumn(t2, "mode_name",
                FfillThenBfill(t2, "mode_name",
                               <<"hospitalization_id", "mode_cat_id">>, NaN))
    IN  SetColumn(t3, "mode_name_id",
            SegmentIds(t3, "mode_name", <<"hospitalization_id", "mode_cat_id">>))

(* lines 409-427: defaults, then the settings within mode_name_id *)

FillVars == <<"fio2_set", "lpm_set", "peep_set", "resp_rate_set", "resp_rate_obs">>

RECURSIVE FillColumns(_, _, _)
FillColumns(t, src, cols) ==
    IF cols = <<>> THEN t
    ELSE FillColumns(
            SetColumn(t, Head(cols),
                GroupFfillBfill(src, Head(cols),
                                <<"hospitalization_id", "mode_name_id">>, NaNum)),
            src, Tail(cols))

\* variant: without the 'blow by' default of lines 415-419
DefaultsFio2Only(t) ==
    [i \in DOMAIN t |->
        [t[i] EXCEPT
            !.fio2_set = IF @ = NaNum /\ t[i].device_category = "room air"
                         THEN RoomAirFio2 ELSE @]]

Defaults(t) ==
    [i \in DOMAIN t |->
        [t[i] EXCEPT
            !.fio2_set = IF @ = NaNum /\ t[i].device_category = "room air"
                         THEN RoomAirFio2 ELSE @,
            !.mode_category = IF @ = NaN /\ ContainsTPiece(t[i].device_name)
                              THEN "blow by" ELSE @]]

\* variant: the settings are filled before the defaults are set
FillSettingsBeforeDefaults(t) == Defaults(FillColumns(t, t, FillVars))

FillSettings(t) == FillColumns(Defaults(t), Defaults(t), FillVars)

(* lines 429-450: tracheostomy, exact duplicates, output columns *)

\* drop_duplicates() compares the columns, not the index
RowValues(r) == [r EXCEPT !.index = 0]

\* variant: tracheostomy is filled forward over the whole table
FinishUngroupedFfill(t) ==
    DropDupBy(
        SetColumn(t, "tracheostomy",
            [i \in DOMAIN t |-> GroupFfill(t, "tracheostomy", <<>>, NaNum, i)]),
        RowValues)

Finish(t) ==
    DropDupBy(
        SetColumn(t, "tracheostomy",
            [i \in DOMAIN t |->
                GroupFfill(t, "tracheostomy", <<"hospitalization_id">>, NaNum, i)]),
        RowValues)

\* the whole function, lines 279-450
process_resp_support(t) ==
    Finish(FillSettings(SegmentMode(SegmentDevice(
        RemoveDuplicates(NeighborRepair(PatternRepair(Prepare(t))))))))

-----------------------------------------------------------------------------
(* process_resp_support as a state machine *)

\* stitch_encounters is not running
StitchIdle ==
    /\ pc = "idle"
    /\ hospitalization = <<>>
    /\ adt = <<>>
    /\ time_interval = DefaultTimeInterval
    /\ hosp_adt_join = <<>>
    /\ hospital_block = <<>>
    /\ passes = 0
    /\ hospital_block2 = <<>>
    /\ df = <<>>

\* one hospitalization observed at MaxRows successive times; the four
\* categorical columns vary, the settings are missing
SegCells ==
    {NaN, "imv", "nippv"} \X {NaN, "mechanical ventilator"}
        \X {NaN, "simv", "cpap"} \X {NaN, "ac/vc"}

SegTables ==
    {[i \in 1..MaxRows |->
        RespRow(i, 1, i, c[i][1], c[i][2], c[i][3], c[i][4],
                NaNum, NaNum, NaNum, NaNum, NaNum, NaNum)] :
        c \in [1..MaxRows -> SegCells]}

\* up to MaxRespHosp hospitalizations; device and mode category and the two
\* ventilator settings read by the repairs vary, fio2_set is recorded
RepCells ==
    {NaN, "imv"} \X {NaN, "SIMV"} \X {NaNum, 5} \X {NaNum, 12}

RepTables ==
    {[i \in 1..MaxRows |->
        RespRow(i, hs[i], i, c[i][1], NaN, c[i][2], NaN,
                50, NaNum, c[i][3], c[i][4], NaNum, NaNum)] :
        hs \in {f \in [1..MaxRows -> 1..MaxRespHosp] : f[1] = 1},
        c \in [1..MaxRows -> RepCells]}

\* up to MaxRespHosp hospitalizations; device category, mode category and
\* fio2_set vary, the names are missing
FillCells ==
    {NaN, "imv", "room air"} \X {NaN, "assist control-volume control", "cpap"}
        \X {NaNum, 50}

FillTables ==
    {[i \in 1..MaxRows |->
        RespRow(i, hs[i], i, c[i][1], NaN, c[i][2], NaN,
                c[i][3], NaNum, NaNum, NaNum, NaNum, NaNum)] :
        hs \in {f \in [1..MaxRows -> 1..MaxRespHosp] : f[1] = 1},
        c \in [1..MaxRows -> FillCells]}

\* rows that share timestamps: two recording times, rows in any order
DupCells == {1, 2} \X {NaN, "nippv", "imv"} \X {NaNum, 50}

DupTables ==
    {[i \in 1..MaxRows |->
        RespRow(i, hs[i], c[i][1], c[i][2], NaN, NaN, NaN,
                c[i][3], NaNum, NaNum, NaNum, NaNum, NaNum)] :
        hs \in {f \in [1..MaxRows -> 1..MaxRespHosp] : f[1] = 1},
        c \in [1..MaxRows -> DupCells]}

\* tables in which a recorded_dttm may be unparseable
BadTables ==
    {[i \in 1..MaxRows |->
        RespRow(i, hs[i], d[i], c[i], NaN, NaN, NaN,
                50, NaNum, NaNum, NaNum, NaNum, NaNum)] :
        hs \in {f \in [1..MaxRows -> 1..MaxRespHosp] : f[1] = 1},
        d \in {f \in [1..MaxRows -> 1..MaxRows \cup {BadDttm}] :
                 \A i \in 1..MaxRows : f[i] \in {i, BadDttm}},
        c \in [1..MaxRows -> {NaN, "imv"}]}

\* tracheostomy observations: up to MaxRespHosp hospitalizations, rows with
\* and without a key variable
TrachTables ==
    {[i \in 1..MaxRows |->
        RespRow(i, hs[i], i, NaN, NaN, NaN, NaN,
                c[i][1], NaNum, NaNum, NaNum, NaNum, c[i][2])] :
        hs \in {f \in [1..MaxRows -> 1..MaxRespHosp] : f[1] = 1},
        c \in [1..MaxRows -> {NaNum, 50} \X {NaNum, 0, 1}]}

\* t-piece devices: device_name and mode_category vary
TPieceTables ==
    {[i \in 1..MaxRows |->
        RespRow(i, hs[i], i, "imv", c[i][1], c[i][2], NaN,
                NaNum, NaNum, NaNum, NaNum, NaNum, NaNum)] :
        hs \in {f \in [1..MaxRows -> 1..MaxRespHosp] : f[1] = 1},
        c \in [1..MaxRows -> {NaN, "T-Piece", "mechanical ventilator"}
                                \X {NaN, "cpap"}]}

RespStart(tables) ==
    /\ StitchIdle
    /\ wpc = "start"
    /\ resp_input \in tables
    /\ resp_support = resp_input
    /\ resp_rerun = <<>>

InitSeg == RespStart(SegTables)
InitRep == RespStart(RepTables)
InitFill == RespStart(FillTables)
InitDup == RespStart(DupTables)
InitBad == RespStart(BadTables)
InitAux == RespStart(TrachTables \cup TPieceTables)

RespStep(from, to, table) ==
    /\ wpc = from
    /\ resp_support' = table
    /\ wpc' = to
    /\ UNCHANGED <<resp_input, resp_rerun, stitchVars>>

\* lines 289-313; the exception of line 292 ends the call, no table is returned
DoPrepare ==
    /\ wpc = "start"
    /\ IF Unparseable(resp_support)
       THEN wpc' = "raised" /\ UNCHANGED resp_support
       ELSE wpc' = "prepared" /\ resp_support' = Prepare(resp_support)
    /\ UNCHANGED <<resp_input, resp_rerun, stitchVars>>
\* lines 315-323
DoPatternRepair == RespStep("prepared", "pattern", PatternRepair(resp_support))
\* lines 325-349
DoNeighborRepair == RespStep("pattern", "neighbor", NeighborRepair(resp_support))
\* lines 351-359
DoRemoveDuplicates == RespStep("neighbor", "deduped", RemoveDuplicates(resp_support))
\* lines 361-383
DoSegmentDevice == RespStep("deduped", "device", SegmentDevice(resp_support))
\* lines 385-407
DoSegmentMode == RespStep("device", "mode", SegmentMode(resp_support))
\* lines 409-427
DoFillSettings == RespStep("mode", "filled", FillSettings(resp_support))
\* lines 429-450
DoFinish == RespStep("filled", "done", Finish(resp_support))

\* the caller passes the returned table to process_resp_support again
Rerun ==
    /\ wpc = "done"
    /\ resp_rerun' = process_resp_support(resp_support)
    /\ wpc' = "rerun"
    /\ UNCHANGED <<resp_input, resp_support, stitchVars>>

NextResp ==
    \/ DoPrepare \/ DoPatternRepair \/ DoNeighborRepair \/ DoRemoveDuplicates
    \/ DoSegmentDevice \/ DoSegmentMode \/ DoFillSettings \/ DoFinish \/ Rerun

SpecSeg == InitSeg /\ [][NextResp]_vars
SpecRep == InitRep /\ [][NextResp]_vars
SpecFill == InitFill /\ [][NextResp]_vars
SpecDup == InitDup /\ [][NextResp]_vars
SpecBad == InitBad /\ [][NextResp]_vars
SpecAux == InitAux /\ [][NextResp]_vars

-----------------------------------------------------------------------------
(* Properties of process_resp_support *)

IdColumns == {"device_cat_id", "device_id", "mode_cat_id", "mode_name_id"}

SameHosp(t, i, j) == t[i].hospitalization_id = t[j].hospitalization_id

RowsOfHosp(t, h) == SelectSeq(t, LAMBDA r : r.hospitalization_id = h)

RespHospIds == {resp_input[i].hospitalization_id : i \in DOMAIN resp_input}

\* C7: in the output, within every hospitalization, device_cat_id, device_id,
\* mode_cat_id and mode_name_id are non-decreasing in recorded_dttm order.
C7_IdsNonDecreasing ==
    wpc = "done" =>
        \A i, j \in DOMAIN resp_support :
            (SameHosp(resp_support, i, j)
                /\ resp_support[i].recorded_dttm < resp_support[j].recorded_dttm) =>
               \A c \in IdColumns : resp_support[i][c] <= resp_support[j][c]

\* C8: in the output, within a hospitalization, rows with equal device_id have
\* equal device_cat_id, rows with equal mode_cat_id have equal device_id, and
\* rows with equal mode_name_id have equal mode_cat_id.
C8_IdsNest ==
    wpc = "done" =>
        \A i, j \in DOMAIN resp_support :
            SameHosp(resp_support, i, j) =>
               /\ resp_support[i].device_id = resp_support[j].device_id
                     => resp_support[i].device_cat_id = resp_support[j].device_cat_id
               /\ resp_support[i].mode_cat_id = resp_support[j].mode_cat_id
                     => resp_support[i].device_id = resp_support[j].device_id
               /\ resp_support[i].mode_name_id = resp_support[j].mode_name_id
                     => resp_support[i].mode_cat_id = resp_support[j].mode_cat_id

\* C9: process_resp_support applied to its own output leaves the four segment
\* ids of every row unchanged.
C9_Idempotent ==
    wpc = "rerun" =>
        /\ Len(resp_rerun) = Len(resp_support)
        /\ \A i \in DOMAIN resp_support :
              /\ resp_rerun[i].index = resp_support[i].index
              /\ \A c \in IdColumns : resp_rerun[i][c] = resp_support[i][c]

\* C10: the output rows of a hospitalization are those obtained when the
\* hospitalization's rows are processed alone.
C10_IndependentPerHospitalization ==
    wpc = "done" =>
        \A h \in RespHospIds :
            RowsOfHosp(resp_support, h) =
                process_resp_support(RowsOfHosp(resp_input, h))

\* the table of a run when lines 351-359 start
BeforeDedup == NeighborRepair(PatternRepair(Prepare(resp_input)))

\* the input row an output row stems from
InputRow(r) == CHOOSE x \in Range(resp_input) : x.index = r.index

KeptIndexes == {resp_support[k].index : k \in DOMAIN resp_support}

\* the input row matches the mask of lines 317-320
MaskedInput(r) ==
    /\ InputRow(r).device_category = NaN
    /\ InputRow(r).device_name = NaN
    /\ MatchesImvMode(Lower(InputRow(r).mode_category))

\* the table of scenario 1: one hospitalization, three rows in time order,
\* device_category [null, imv, null], mode_category [ac/vc, null, null]
IsScenario1 ==
    /\ Len(resp_input) = 3
    /\ \A i \in 1..3 : /\ resp_input[i].hospitalization_id = 1
                       /\ resp_input[i].recorded_dttm = i
    /\ resp_input[1].device_category = NaN
    /\ resp_input[2].device_category = "imv"
    /\ resp_input[3].device_category = NaN
    /\ resp_input[1].mode_category = "assist control-volume control"
    /\ resp_input[2].mode_category = NaN
    /\ resp_input[3].mode_category = NaN

RepairedRow(r) ==
    r.device_category = "imv" /\ r.device_name = "mechanical ventilator"

C14_DuplicateRemoval ==
    wpc = "deduped" =>
        LET b == BeforeDedup
            Shared(i) == SizeOfTimestamp(b, i) > 1
            Definite(i) == b[i].device_category \notin {NaN, "nippv"}
        IN  \A i \in DOMAIN b :
                /\ (Shared(i) /\ ~Definite(i)) => b[i].index \notin KeptIndexes
                /\ (Shared(i) /\ Definite(i)) =>
                      \E j \in DOMAIN b :
                          /\ TimestampKey(b[j]) = TimestampKey(b[i])
                          /\ Definite(j)
                          /\ b[j] \in Range(resp_support)
                /\ ~Shared(i) =>
                      (b[i] \in Range(resp_support) <=> ~AllKeyVariablesMissing(b[i]))

\* a 'nippv' row and an 'imv' row at one timestamp, the first dropped and the
\* second retained, and a 'nippv' row alone at another timestamp, retained
C14_Witness ==
    /\ wpc = "deduped"
    /\ \E i, j, k \in DOMAIN resp_input :
          /\ TimestampKey(resp_input[i]) = TimestampKey(resp_input[j])
          /\ TimestampKey(resp_input[k]) # TimestampKey(resp_input[i])
          /\ resp_input[i].device_category = "nippv"
          /\ resp_input[j].device_category = "imv"
          /\ resp_input[k].device_category = "nippv"
          /\ KeptIndexes = {resp_input[j].index, resp_input[k].index}

\* C15: every row with device_category 'room air' has a fio2_set after lines
\* 409-427 and in the output; it is RoomAirFio2 when the row had no fio2_set,
\* and the row's own recorded value otherwise.
C15_RoomAirDefault ==
    wpc \in {"filled", "done"} =>
        \A r \in Range(resp_support) :
            r.device_category = "room air" =>
                /\ r.fio2_set # NaNum
                /\ InputRow(r).fio2_set = NaNum => r.fio2_set = RoomAirFio2
                /\ InputRow(r).fio2_set # NaNum => r.fio2_set = InputRow(r).fio2_set

\* a room-air row without fio2_set gets RoomAirFio2 although a row of its
\* hospitalization and mode_name_id has another fio2_set
C15_Witness ==
    /\ wpc = "done"
    /\ \E r, n \in Range(resp_support) :
          /\ r.device_category = "room air"
          /\ InputRow(r).fio2_set = NaNum
          /\ r.fio2_set = RoomAirFio2
          /\ n.hospitalization_id = r.hospitalization_id
          /\ n.mode_name_id = r.mode_name_id
          /\ n.fio2_set # NaNum
          /\ n.fio2_set # RoomAirFio2

\* the call has ended: it returned a table or raised
RunEnded == wpc \in {"raised", "done", "rerun"}

\* the rows of hospitalization h were normalized: the call returned a table
\* and the segment ids of the rows of h are assigned
Normalized(h) ==
    /\ wpc # "raised"
    /\ \A r \in Range(RowsOfHosp(resp_support, h)) :
          \A c \in IdColumns : r[c] >= 1

\* C16: when the call has ended, every hospitalization whose recorded_dttm
\* values are all parseable has been normalized, whatever the timestamps of
\* the other hospitalizations of the table.
C16_ErrorScopedToHospitalization ==
    RunEnded =>
        \A h \in RespHospIds :
            ~Unparseable(RowsOfHosp(resp_input, h)) => Normalized(h)

\* C18: within each hospitalization, device_cat_id is 1 on the first row and,
\* from one row to the next, one more when the forward-filled device_category
\* differs from the previous row's and the same otherwise.
C18_DeviceCatIdRuns ==
    wpc \in {"device", "mode", "filled", "done"} =>
        \A h \in RespHospIds :
            LET rows == RowsOfHosp(resp_support, h)
            IN  /\ rows # <<>> => rows[1].device_cat_id = 1
                /\ \A i \in 1..(Len(rows) - 1) :
                      rows[i + 1].device_cat_id =
                          IF rows[i + 1].device_category # rows[i].device_category
                          THEN rows[i].device_cat_id + 1
                          ELSE rows[i].device_cat_id

\* the second hospitalization starts with the category the first one ended
\* with and has id 1 there; its next row changes category and has id 2
C18_Witness ==
    /\ wpc = "done"
    /\ Len(resp_support) = 3
    /\ resp_support[1].hospitalization_id # resp_support[2].hospitalization_id
    /\ resp_support[2].hospitalization_id = resp_support[3].hospitalization_id
    /\ resp_support[1].device_category = resp_support[2].device_category
    /\ resp_support[2].device_category # resp_support[3].device_category
    /\ resp_support[2].device_cat_id = 1
    /\ resp_support[3].device_cat_id = 2

\* in the table after, a value of col that was missing in the table before
\* is the value a row of the same hospitalization and the same seg id had before
FilledFromSegment(bef, aft, col, seg) ==
    \A i \in DOMAIN aft :
        (bef[i][col] = NaN /\ aft[i][col] # NaN) =>
            \E j \in DOMAIN aft :
                /\ SameHosp(aft, i, j)
                /\ aft[j][seg] = aft[i][seg]
                /\ bef[j][col] = aft[i][col]

\* C19: a device_name filled by lines 361-383 comes from a row of the same
\* hospitalization and device_cat_id, a mode_category filled by lines 385-407
\* from the same device_id, a filled mode_name from the same mode_cat_id; a
\* segment without an observed value keeps the value missing.
C19_FillsStayInSegment ==
    [][/\ DoSegmentDevice =>
            FilledFromSegment(resp_support, resp_support',
                              "device_name", "device_cat_id")
       /\ DoSegmentMode =>
            /\ FilledFromSegment(resp_support, resp_support',
                                 "mode_category", "device_id")
            /\ FilledFromSegment(resp_support, resp_support',
                                 "mode_name", "mode_cat_id")]_vars

\* rows i and j lie in one contiguous run of rows of one hospitalization with
\* the same four segment ids
SameEpisode(t, i, j) ==
    \A k \in DOMAIN t :
        ((i <= k /\ k <= j) \/ (j <= k /\ k <= i)) =>
            /\ SameHosp(t, i, k)
            /\ \A c \in IdColumns : t[k][c] = t[i][c]

\* the value of col that lines 409-427 put into row i was recorded on a row
\* of the same contiguous episode, or is the room-air default of line 411
SettingFromEpisode(bef, aft, col, i) ==
    \/ \E j \in DOMAIN aft :
          /\ SameEpisode(aft, i, j)
          /\ bef[j][col] = aft[i][col]
    \/ /\ col = "fio2_set"
       /\ \E j \in DOMAIN aft :
             /\ SameEpisode(aft, i, j)
             /\ bef[j][col] = NaNum
             /\ aft[j].device_category = "room air"
             /\ aft[i][col] = RoomAirFio2

\* C20: a numeric setting filled by lines 409-427 is the value of a row of the
\* same contiguous episode (same hospitalization, same device_cat_id,
\* device_id, mode_cat_id and mode_name_id, no other episode in between).
C20_SettingsFilledWithinEpisode ==
    [][DoFillSettings =>
          \A i \in DOMAIN resp_support : \A c \in Range(FillVars) :
              (resp_support[i][c] = NaNum /\ resp_support'[i][c] # NaNum) =>
                  SettingFromEpisode(resp_support, resp_support', c, i)]_vars

\* device_category and device_name of the row when lines 315-323 are done
CategoryAfterPattern(r) ==
    IF MaskedInput(r) THEN "imv" ELSE Lower(InputRow(r).device_category)

NameAfterPattern(r) ==
    IF MaskedInput(r) THEN "mechanical ventilator" ELSE Lower(InputRow(r).device_name)

\* row k exists and was 'imv' when lines 315-323 were done
ImvAfterPattern(t, k) == k \in DOMAIN t /\ CategoryAfterPattern(t[k]) = "imv"

VentSettings(r) ==
    Gt(r.resp_rate_set, VentThreshold) /\ Gt(r.peep_set, VentThreshold)

\* C21: after lines 325-349 a row is 'imv' / 'mechanical ventilator' by the
\* neighbour repair iff its device_category was still missing, its
\* resp_rate_set and peep_set exceed 1 and the row just before or just after
\* it in sort order, of the same hospitalization, was 'imv'; every other row
\* keeps its device_category and device_name.
C21_NeighborRepairIff ==
    wpc = "neighbor" =>
        \A k \in DOMAIN resp_support :
            LET r == resp_support[k]
                meets ==
                    /\ CategoryAfterPattern(r) = NaN
                    /\ VentSettings(r)
                    /\ \/ ImvAfterPattern(resp_support, k - 1)
                             /\ SameHosp(resp_support, k, k - 1)
                       \/ ImvAfterPattern(resp_support, k + 1)
                             /\ SameHosp(resp_support, k, k + 1)
            IN  IF meets THEN RepairedRow(r)
                ELSE /\ r.device_category = CategoryAfterPattern(r)
                     /\ r.device_name = NameAfterPattern(r)

\* C30: after lines 325-349 a row is 'imv' iff it was 'imv' when the pattern
\* repair was done (observed or promoted by it) or it was missing then, has
\* resp_rate_set and peep_set above 1 and a row next to it in the table was
\* 'imv' when the pattern repair was done; a row next to a row promoted by the
\* neighbour repair only is not promoted.
C30_RepairsOrderedSinglePass ==
    wpc = "neighbor" =>
        \A k \in DOMAIN resp_support :
            resp_support[k].device_category = "imv" <=>
                \/ ImvAfterPattern(resp_support, k)
                \/ /\ CategoryAfterPattern(resp_support[k]) = NaN
                   /\ VentSettings(resp_support[k])
                   /\ \/ ImvAfterPattern(resp_support, k - 1)
                      \/ ImvAfterPattern(resp_support, k + 1)

\* three rows in a chain: the first promoted by the pattern repair, the
\* second by the neighbour repair because of the first, the third with
\* settings above 1 next to the second only, still missing
C30_Witness ==
    /\ wpc = "neighbor"
    /\ Len(resp_support) = 3
    /\ MaskedInput(resp_support[1])
    /\ CategoryAfterPattern(resp_support[2]) = NaN
    /\ RepairedRow(resp_support[2])
    /\ VentSettings(resp_support[3])
    /\ resp_support[3].device_category = NaN

\* the column col is the same in the table after as in the table before
ColumnUnchanged(bef, aft, col) ==
    /\ Len(aft) = Len(bef)
    /\ \A i \in DOMAIN aft : aft[i][col] = bef[i][col]

\* C22: lines 361-363 give every row the most recent non-null device_category
\* at or before it in its hospitalization, rows before the first such row keep
\* a null device_category, and no later step changes the column.
C22_DeviceCategoryForwardFilled ==
    [][/\ DoSegmentDevice =>
            \A i \in DOMAIN resp_support' :
                LET earlier == {j \in 1..i :
                                  /\ SameHosp(resp_support, i, j)
                                  /\ resp_support[j].device_category # NaN}
                IN  resp_support'[i].device_category =
                        IF earlier = {} THEN NaN
                        ELSE resp_support[Max(earlier)].device_category
       /\ (DoSegmentMode \/ DoFillSettings \/ DoFinish) =>
            ColumnUnchanged(resp_support, resp_support', "device_category")]_vars

\* one hospitalization: the first output row has no device_category, the
\* second has one, the third had none in the input and carries the second's
C22_Witness ==
    /\ wpc = "done"
    /\ Len(resp_support) = 3
    /\ SameHosp(resp_support, 1, 3)
    /\ resp_support[1].device_category = NaN
    /\ resp_support[2].device_category # NaN
    /\ InputRow(resp_support[3]).device_category = NaN
    /\ resp_support[3].device_category = resp_support[2].device_category

\* a row whose col was null before has the id of the row before it in its
\* group, and a group whose col was null throughout has one id
NullStartsNoSegment(bef, aft, col, keys, id) ==
    /\ \A i \in DOMAIN aft :
          LET above == {j \in 1..(i - 1) : SameGroup(aft, keys, i, j)}
          IN  (bef[i][col] = NaN /\ above # {})
                  => aft[i][id] = aft[Max(above)][id]
    /\ \A i \in DOMAIN aft :
          (\A k \in DOMAIN aft : SameGroup(aft, keys, i, k) => bef[k][col] = NaN)
              => \A k \in DOMAIN aft :
                    SameGroup(aft, keys, i, k) => aft[k][id] = aft[i][id]

\* C23: in lines 365-407 a row whose device_category, device_name,
\* mode_category or mode_name is null when the step starts gets the segment
\* id of the row before it in its group (hospitalization; hospitalization and
\* device_cat_id; hospitalization and device_id; hospitalization and
\* mode_cat_id), and a group whose column is null throughout gets a single id.
C23_NullStartsNoSegment ==
    [][/\ DoSegmentDevice =>
            /\ NullStartsNoSegment(resp_support, resp_support', "device_category",
                                   <<"hospitalization_id">>, "device_cat_id")
            /\ NullStartsNoSegment(resp_support, resp_support', "device_name",
                                   <<"hospitalization_id", "device_cat_id">>,
                                   "device_id")
       /\ DoSegmentMode =>
            /\ NullStartsNoSegment(resp_support, resp_support', "mode_category",
                                   <<"hospitalization_id", "device_id">>,
                                   "mode_cat_id")
            /\ NullStartsNoSegment(resp_support, resp_support', "mode_name",
                                   <<"hospitalization_id", "mode_cat_id">>,
                                   "mode_name_id")]_vars

\* the output rows of the hospitalization of r, recorded at or before r, on
\* which tracheostomy was observed
TrachObservedBefore(r) ==
    {x \in Range(resp_support) :
        /\ x.hospitalization_id = r.hospitalization_id
        /\ x.recorded_dttm <= r.recorded_dttm
        /\ InputRow(x).tracheostomy # NaNum}

C25_TPieceBlowBy ==
    [][/\ DoFillSettings =>
            /\ \A i \in DOMAIN resp_support' :
                  resp_support'[i].mode_category =
                      IF /\ resp_support[i].mode_category = NaN
                         /\ ContainsTPiece(resp_support[i].device_name)
                      THEN "blow by"
                      ELSE resp_support[i].mode_category
            /\ ColumnUnchanged(resp_support, resp_support', "mode_cat_id")
            /\ ColumnUnchanged(resp_support, resp_support', "mode_name_id")
       /\ DoFinish =>
            /\ ColumnUnchanged(resp_support, resp_support', "mode_category")
            /\ ColumnUnchanged(resp_support, resp_support', "mode_cat_id")
            /\ ColumnUnchanged(resp_support, resp_support', "mode_name_id")]_vars

\* a row recorded with device_name 'T-Piece' and no mode_category is 'blow by'
\* in the output, after a row of its hospitalization with mode_category 'cpap'
\* and the same mode_cat_id number
C25_Witness ==
    /\ wpc = "done"
    /\ \E r, x \in Range(resp_support) :
          /\ InputRow(r).device_name = "T-Piece"
          /\ InputRow(r).mode_category = NaN
          /\ r.mode_category = "blow by"
          /\ x.hospitalization_id = r.hospitalization_id
          /\ x.mode_category = "cpap"
          /\ x.mode_cat_id = r.mode_cat_id

C28_OneRowPerTimestamp ==
    wpc \in {"deduped", "device", "mode", "filled", "done"} =>
        \A i, j \in DOMAIN resp_support :
            i # j => TimestampKey(resp_support[i]) # TimestampKey(resp_support[j])

\* three 'imv' rows of one hospitalization recorded at one time: one output row
C28_Witness ==
    /\ wpc = "done"
    /\ \A i \in DOMAIN resp_input :
          /\ TimestampKey(resp_input[i]) = TimestampKey(resp_input[1])
          /\ resp_input[i].device_category = "imv"
    /\ Len(resp_input) > 1
    /\ Len(resp_support) = 1

\* C29: for every (hospitalization_id, recorded_dttm) at which an input row
\* has a device_category, the output has a row with that key.
C29_DeviceTimestampKept ==
    wpc = "done" =>
        \A i \in DOMAIN resp_input :
            resp_input[i].device_category # NaN =>
                \E r \in Range(resp_support) :
                    TimestampKey(r) = TimestampKey(resp_input[i])

====
